---- MODULE Spec2Model ----
(***************************************************************************)
(* A model of fabric-network's Gateway (lib/gateway.js): the option merge  *)
(* of connect, the asynchronous connect and getNetwork handlers split at   *)
(* their await points, the Network cache, disconnect, the getters, and the *)
(* order in which a transaction's event handler is driven.                 *)
(***************************************************************************)
EXTENDS Integers, Sequences, FiniteSets, TLC

(***************************************************************************)
(* Bounds of the model.                                                    *)
(***************************************************************************)
\* the number of Network instances the callers have the Gateway construct
MaxNetworks == 2

(***************************************************************************)
(* JavaScript values.  An object is a tagged map from property names to    *)
(* values; a primitive carries its type, so truthiness and instanceof are  *)
(* computed as the language computes them.                                 *)
(***************************************************************************)
Obj(f) == [obj |-> TRUE, props |-> f]
Num(n) == [obj |-> FALSE, type |-> "number", val |-> n]
Str(s) == [obj |-> FALSE, type |-> "string", val |-> s]
Bool(b) == [obj |-> FALSE, type |-> "boolean", val |-> b]
JSNull == [obj |-> FALSE, type |-> "null", val |-> "null"]
Undefined == [obj |-> FALSE, type |-> "undefined", val |-> "undefined"]
EmptyObject == Obj(<<>>)

\* `x instanceof Object`
InstanceOfObject(v) == v.obj

\* the truth value of a JavaScript value in a condition
TruthyValue(v) ==
    IF v.obj THEN TRUE
    ELSE IF v.type \in {"null", "undefined"} THEN FALSE
    ELSE IF v.type = "boolean" THEN v.val
    ELSE IF v.type = "number" THEN v.val # 0
    ELSE v.val # ""

\* `o[prop] !== undefined` and the truth value of `o.prop`, o being a property map
Defined(o, prop) == prop \in DOMAIN o
Truthy(o, prop) == Defined(o, prop) /\ TruthyValue(o[prop])

\* `delete o[prop]`
Delete(o, prop) == [p \in (DOMAIN o) \ {prop} |-> o[p]]

\* the property names of the model, by the stem before a possible 'Options' suffix
Stems == {"", "queryHandler", "eventHandler", "retry"}
\* `prop.endsWith('Options')`
EndsWithOptions(prop) == \E s \in Stems : prop = s \o "Options"

(***************************************************************************)
(* Gateway._mergeOptions: the properties of suppliedOptions are copied     *)
(* into defaultOptions; an object-valued property whose name ends with     *)
(* 'Options' is merged recursively when the default has it.                *)
(***************************************************************************)
\* a variant that copies every supplied property, nested objects included
_mergeOptionsShallow(defaultOptions, suppliedOptions) ==
    [prop \in (DOMAIN defaultOptions) \cup (DOMAIN suppliedOptions) |->
        IF prop \in DOMAIN suppliedOptions
        THEN suppliedOptions[prop] ELSE defaultOptions[prop]]

RECURSIVE _mergeOptions(_, _)
_mergeOptions(defaultOptions, suppliedOptions) ==
    [prop \in (DOMAIN defaultOptions) \cup (DOMAIN suppliedOptions) |->
        IF prop \notin DOMAIN suppliedOptions
        THEN defaultOptions[prop]
        ELSE IF InstanceOfObject(suppliedOptions[prop]) /\ EndsWithOptions(prop)
             THEN IF ~Defined(defaultOptions, prop)
                  THEN suppliedOptions[prop]
                  ELSE Obj(_mergeOptions(defaultOptions[prop].props, suppliedOptions[prop].props))
             ELSE suppliedOptions[prop]]

(***************************************************************************)
(* The defaults of the constructor.                                        *)
(***************************************************************************)
DefaultCommitTimeout == 300
MSPID_SCOPE_ALLFORTX == Str("MSPID_SCOPE_ALLFORTX")
DefaultQueryHandler == Str("./impl/query/defaultqueryhandler")
\* Client.getConfigSetting('initialize-with-discovery', true)
InitializeWithDiscovery == Bool(TRUE)

DefaultOptions ==
    [queryHandler |-> DefaultQueryHandler,
     queryHandlerOptions |-> EmptyObject,
     eventHandlerOptions |-> Obj([commitTimeout |-> Num(DefaultCommitTimeout),
                                  strategy |-> MSPID_SCOPE_ALLFORTX]),
     discovery |-> Obj([enabled |-> InitializeWithDiscovery])]

(***************************************************************************)
(* The callers' inputs.  A wallet holds the identities user1 and user2 and *)
(* the TLS identity tlsUser; a config is a connection profile or a         *)
(* prebuilt Client instance; a query handler is a module path, one of      *)
(* which cannot be loaded.                                                 *)
(***************************************************************************)
Wallet == Obj([store |-> Str("wallet")])
TlsInfo == Obj([certificate |-> Str("tlsInfoCert"), key |-> Str("tlsInfoKey")])
CustomQueryHandler == Str("./my/queryhandler")
MissingQueryHandler == Str("./no/such/module")

\* the `options` argument of connect, one entry per call shape
OptionCases ==
    << Undefined,
       Obj([identity |-> Str("user1"),
            eventHandlerOptions |-> Obj([commitTimeout |-> Num(100)])]),
       Obj([wallet |-> Wallet, identity |-> Str("user1")]),
       Obj([wallet |-> Wallet, identity |-> Str("user2"),
            clientTlsIdentity |-> Str("tlsUser")]),
       Obj([wallet |-> Wallet]),
       Obj([wallet |-> Wallet, identity |-> Str("user1"),
            clientTlsIdentity |-> Str("tlsUser"),
            eventHandlerOptions |-> Obj([commitTimeout |-> Num(100)]),
            discovery |-> Obj([asLocalhost |-> Bool(FALSE)]),
            queryHandlerOptions |-> Obj([retryOptions |-> Obj([max |-> Num(2)])])]),
       Obj([wallet |-> Wallet, identity |-> Str("user1"),
            clientTlsIdentity |-> Str("tlsUser"), tlsInfo |-> TlsInfo,
            eventHandlerOptions |-> Obj([strategy |-> JSNull]),
            discovery |-> Obj([enabled |-> Bool(FALSE)]),
            queryHandler |-> CustomQueryHandler,
            queryHandlerOptions |-> Obj([strategy |-> Str("ROUND_ROBIN")])]),
       Obj([wallet |-> Wallet, tlsInfo |-> TlsInfo,
            queryHandler |-> MissingQueryHandler]) >>

\* the channel names the callers ask for
ChannelNames == {"mychannel", "yourchannel"}

Configs == { [isClient |-> FALSE, client |-> "profileClient"],
             [isClient |-> TRUE, client |-> "prebuiltClient"] }
Clients == { c.client : c \in Configs }
NullClient == "null"

\* the User that wallet.setUserContext resolves with, and its MSP ID
UserOf(label) == label
MSPIdOf(user) == IF user = "user1" THEN "Org1MSP" ELSE "Org2MSP"
NoIdentity == "undefined"
NoClass == "undefined"

\* require(path): the class a module path loads, if it loads
Loadable(path) == path # MissingQueryHandler
ClassOf(path) == path.val

(***************************************************************************)
(* The state of a Gateway.                                                 *)
(***************************************************************************)
VARIABLES
    client,             \* this.client
    currentIdentity,    \* this.currentIdentity
    options,            \* this.options, a property map
    queryHandlerClass,  \* this.queryHandlerClass
    networks,           \* this.networks: channel name -> Network instance
    nets,               \* the Network instances constructed so far
    calls,              \* the getNetwork calls awaiting _initialize
    conn,               \* the connect call awaiting the wallet
    last,               \* the outcome of the last step of an operation
    supplied,           \* the option values the callers supplied last
    disconnected,       \* disconnect ran and no getNetwork started since
    tx                  \* the transaction being submitted through a Network

vars == <<client, currentIdentity, options, queryHandlerClass, networks, nets,
          calls, conn, last, supplied, disconnected, tx>>

Idle == [pc |-> "idle", arg |-> [config |-> "", options |-> 0]]
None == ""
NoNetwork == 0

\* no transaction is being submitted; `log` lists the calls made for the
\* transaction submitted last
NoTransaction == [pc |-> "idle", handler |-> FALSE, log |-> <<>>]

\* a call made on a collaborator (wallet, client, module loader, Network)
Call(name, arg) == [call |-> name, arg |-> arg]

Outcome(op, arg, outcome, ext, ret) ==
    [op |-> op, arg |-> arg, outcome |-> outcome, ext |-> ext, ret |-> ret]

\* the constructor
Init ==
    /\ client = NullClient
    /\ currentIdentity = NoIdentity
    /\ options = DefaultOptions
    /\ queryHandlerClass = NoClass
    /\ networks = <<>>
    /\ nets = <<>>
    /\ calls = {}
    /\ conn = Idle
    /\ last = Outcome("new", None, "ok", <<>>, NoNetwork)
    /\ supplied = [commitTimeout |-> Undefined, strategy |-> Undefined,
                   enabled |-> Undefined]
    /\ disconnected = FALSE
    /\ tx = NoTransaction

(***************************************************************************)
(* connect(config, options).  The handler runs to its first await: the     *)
(* wallet's setUserContext when an identity is supplied, else the wallet's *)
(* export when a clientTlsIdentity is supplied, else to its end.           *)
(***************************************************************************)
WalletError == "A wallet must be assigned to a Gateway instance"
LoadError == "unable to load provided query handler"

\* a variant that checks `!options` alone
WalletMissingOptionsOnly(opts) == ~TruthyValue(opts)

\* `!options || !options.wallet`
WalletMissing(opts) == ~TruthyValue(opts) \/ ~Truthy(opts.props, "wallet")

\* a variant that keeps the queryHandlerOptions whatever query handler is supplied
ConnectOptionsKeep(thisOptions, opts) == _mergeOptions(thisOptions, opts)

\* this.options after the query handler check and the merge of the supplied options
ConnectOptions(thisOptions, opts) ==
    LET kept == IF Truthy(opts, "queryHandler")
                   /\ thisOptions["queryHandler"] # opts["queryHandler"]
                THEN Delete(thisOptions, "queryHandlerOptions")
                ELSE thisOptions
    IN  _mergeOptions(kept, opts)

\* this.client, loaded from a connection profile unless config is a Client
ConnectClient(config) == config.client
ConnectClientCalls(config) ==
    IF config.isClient THEN <<>> ELSE <<Call("loadFromConfig", config.client)>>

\* the option values a caller supplies, for reference by the properties
SuppliedBy(opts, group, prop, before) ==
    IF Defined(opts, group) /\ opts[group].obj /\ Defined(opts[group].props, prop)
    THEN opts[group].props[prop]
    ELSE before

\* the identity wallet.export resolves with for a label
Export(label) == [certificate |-> label \o ".certificate",
                  privateKey |-> label \o ".privateKey"]

\* a variant that checks `options.tlsInfo` alone
TlsInfoAppliesAlways(opts) == Truthy(opts, "tlsInfo")

\* `options.tlsInfo && !options.clientTlsIdentity`
TlsInfoApplies(opts) == Truthy(opts, "tlsInfo") /\ ~Truthy(opts, "clientTlsIdentity")

\* the arguments of a connect call: the client of its config and the index
\* of its options among the option cases
ConnectArg(config, i) == [config |-> config.client, options |-> i]

\* from the tlsInfo check to the end of connect: the TLS credential of
\* tlsInfo, then the load of the query handler module this.options names
ConnectFinish(arg, opts, thisOptions, ext) ==
    LET tlsCalls == IF TlsInfoApplies(opts)
                    THEN <<Call("setTlsClientCertAndKey",
                                <<opts["tlsInfo"].props["certificate"].val,
                                  opts["tlsInfo"].props["key"].val>>)>>
                    ELSE <<>>
        load == Truthy(thisOptions, "queryHandler")
        loadCalls == IF load THEN <<Call("require", thisOptions["queryHandler"].val)>>
                     ELSE <<>>
        failed == load /\ ~Loadable(thisOptions["queryHandler"])
    IN  /\ queryHandlerClass' = IF load /\ ~failed
                                THEN ClassOf(thisOptions["queryHandler"])
                                ELSE queryHandlerClass
        /\ conn' = Idle
        /\ last' = Outcome("connect", arg, IF failed THEN LoadError ELSE "ok",
                           ext \o tlsCalls \o loadCalls, NoNetwork)

\* from the clientTlsIdentity check on: await the wallet's export, or finish
ConnectFromTls(arg, opts, thisOptions, ext) ==
    IF Truthy(opts, "clientTlsIdentity")
    THEN /\ conn' = [pc |-> "awaitExport", arg |-> arg]
         /\ last' = Outcome("connect", arg, "pending",
                            ext \o <<Call("export", opts["clientTlsIdentity"].val)>>,
                            NoNetwork)
         /\ UNCHANGED queryHandlerClass
    ELSE ConnectFinish(arg, opts, thisOptions, ext)

ConnectStart(config, i) ==
    LET opts == OptionCases[i]
        arg == ConnectArg(config, i)
    IN
    /\ conn.pc = "idle"
    /\ UNCHANGED tx
    /\ IF WalletMissing(opts)
       THEN /\ last' = Outcome("connect", arg, WalletError, <<>>, NoNetwork)
            /\ UNCHANGED <<client, currentIdentity, options, queryHandlerClass,
                           networks, nets, calls, conn, supplied, disconnected>>
       ELSE LET merged == ConnectOptions(options, opts.props)
                ext == ConnectClientCalls(config)
            IN  /\ options' = merged
                /\ client' = ConnectClient(config)
                /\ supplied' =
                     [commitTimeout |-> SuppliedBy(opts.props, "eventHandlerOptions",
                                                   "commitTimeout", supplied.commitTimeout),
                      strategy |-> SuppliedBy(opts.props, "eventHandlerOptions",
                                              "strategy", supplied.strategy),
                      enabled |-> SuppliedBy(opts.props, "discovery",
                                             "enabled", supplied.enabled)]
                /\ IF Truthy(opts.props, "identity")
                   THEN /\ conn' = [pc |-> "awaitUser", arg |-> arg]
                        /\ last' = Outcome("connect", arg, "pending",
                                           ext \o <<Call("setUserContext",
                                                         opts.props["identity"].val)>>,
                                           NoNetwork)
                        /\ UNCHANGED queryHandlerClass
                   ELSE ConnectFromTls(arg, opts.props, merged, ext)
                /\ UNCHANGED <<currentIdentity, networks, nets, calls, disconnected>>

\* wallet.setUserContext resolves: this.currentIdentity is assigned
ConnectUserResolved ==
    LET opts == OptionCases[conn.arg.options].props
    IN  /\ conn.pc = "awaitUser"
        /\ currentIdentity' = UserOf(opts["identity"].val)
        /\ ConnectFromTls(conn.arg, opts, options, <<>>)
        /\ UNCHANGED <<client, options, networks, nets, calls, supplied, disconnected, tx>>

\* wallet.export resolves: its certificate and key are set on this.client
ConnectExportResolved ==
    LET opts == OptionCases[conn.arg.options].props
        tlsIdentity == Export(opts["clientTlsIdentity"].val)
    IN  /\ conn.pc = "awaitExport"
        /\ ConnectFinish(conn.arg, opts, options,
                         <<Call("setTlsClientCertAndKey",
                                <<tlsIdentity.certificate, tlsIdentity.privateKey>>)>>)
        /\ UNCHANGED <<client, currentIdentity, options, networks, nets, calls,
                       supplied, disconnected, tx>>

\* the awaited wallet operation rejects: connect rejects with its error
ConnectWalletRejects ==
    /\ conn.pc \in {"awaitUser", "awaitExport"}
    /\ conn' = Idle
    /\ last' = Outcome("connect", conn.arg, "wallet error", <<>>, NoNetwork)
    /\ UNCHANGED <<client, currentIdentity, options, queryHandlerClass, networks,
                   nets, calls, supplied, disconnected, tx>>

(***************************************************************************)
(* The Network cache.                                                      *)
(***************************************************************************)
\* a variant that never finds an entry
NetworksGetMiss(cache, networkName) == NoNetwork

\* this.networks.get(networkName), NoNetwork standing for undefined
NetworksGet(cache, networkName) ==
    IF networkName \in DOMAIN cache THEN cache[networkName] ELSE NoNetwork

\* a variant that overwrites every entry
NetworksSetEvery(cache, networkName, newNetwork) ==
    [n \in (DOMAIN cache) \cup {networkName} |-> newNetwork]

\* this.networks.set(networkName, newNetwork)
NetworksSet(cache, networkName, newNetwork) ==
    [n \in (DOMAIN cache) \cup {networkName} |->
        IF n = networkName THEN newNetwork ELSE cache[n]]

\* this.networks.values()
NetworksValues(cache) == { cache[n] : n \in DOMAIN cache }

\* new Network(this, channel): the channel is the one `name` has on the
\* Gateway's client
NewNetwork(name, cl) ==
    [name |-> name, client |-> cl, mspId |-> "none",
     initialized |-> FALSE, disposed |-> 0]

\* the argument of newNetwork._initialize(this.options.discovery)
InitializeArgument(thisOptions) ==
    IF Defined(thisOptions, "discovery") THEN thisOptions["discovery"] ELSE Undefined

TypeError == "TypeError"
InitializeError == "initialize error"

(***************************************************************************)
(* getNetwork(networkName), up to its await of newNetwork._initialize.     *)
(***************************************************************************)
GetNetworkStart(networkName) ==
    LET existingNetwork == NetworksGet(networks, networkName) IN
    /\ disconnected' = FALSE
    /\ IF existingNetwork # NoNetwork
       THEN /\ last' = Outcome("getNetwork", networkName, "ok", <<>>, existingNetwork)
            /\ UNCHANGED <<nets, calls>>
       ELSE IF client = NullClient
       THEN /\ last' = Outcome("getNetwork", networkName, TypeError, <<>>, NoNetwork)
            /\ UNCHANGED <<nets, calls>>
       ELSE /\ Len(nets) < MaxNetworks
            /\ nets' = Append(nets, NewNetwork(networkName, client))
            /\ calls' = calls \cup {[net |-> Len(nets) + 1, name |-> networkName,
                                     pc |-> "initializing"]}
            /\ last' = Outcome("getNetwork", networkName, "pending",
                               <<Call("new Network", networkName),
                                 Call("_initialize", InitializeArgument(options))>>,
                               NoNetwork)
    /\ UNCHANGED <<client, currentIdentity, options, queryHandlerClass, networks,
                   conn, supplied, tx>>

(***************************************************************************)
(* _createQueryHandler(channel, peerMap), which the Network calls while it *)
(* initializes: the handler is built for the MSP ID of the identity that   *)
(* is current at that moment.                                              *)
(***************************************************************************)
\* a variant that answers with the MSP ID of the first identity
FirstMspId(identity) == "Org1MSP"

\* this.getCurrentIdentity().getIdentity().getMSPId()
CurrentMspId(identity) == MSPIdOf(identity)

_createQueryHandler(c) ==
    /\ c \in calls
    /\ c.pc = "initializing"
    /\ IF queryHandlerClass # NoClass
       THEN IF currentIdentity = NoIdentity
            THEN \* this.getCurrentIdentity() is undefined
                 /\ calls' = calls \ {c}
                 /\ last' = Outcome("getNetwork", c.name, TypeError, <<>>, NoNetwork)
                 /\ UNCHANGED nets
            ELSE /\ nets' = [nets EXCEPT ![c.net].mspId = CurrentMspId(currentIdentity)]
                 /\ calls' = (calls \ {c}) \cup {[c EXCEPT !.pc = "handler"]}
                 /\ last' = Outcome("_createQueryHandler", None, "ok",
                                    <<Call("new queryHandlerClass", queryHandlerClass)>>,
                                    NoNetwork)
       ELSE /\ UNCHANGED nets
            /\ calls' = (calls \ {c}) \cup {[c EXCEPT !.pc = "handler"]}
            /\ last' = Outcome("_createQueryHandler", None, "ok", <<>>, NoNetwork)
    /\ UNCHANGED <<client, currentIdentity, options, queryHandlerClass, networks,
                   conn, supplied, disconnected, tx>>

\* a variant that has put the Network in the cache before awaiting _initialize
InitializeRejectsCached(c) ==
    /\ c \in calls
    /\ calls' = calls \ {c}
    /\ networks' = NetworksSet(networks, c.name, c.net)
    /\ last' = Outcome("getNetwork", c.name, InitializeError, <<>>, NoNetwork)
    /\ UNCHANGED <<client, currentIdentity, options, queryHandlerClass,
                   nets, conn, supplied, disconnected, tx>>

\* newNetwork._initialize rejects: getNetwork rejects, nothing is cached
InitializeRejects(c) ==
    /\ c \in calls
    /\ calls' = calls \ {c}
    /\ last' = Outcome("getNetwork", c.name, InitializeError, <<>>, NoNetwork)
    /\ UNCHANGED <<client, currentIdentity, options, queryHandlerClass, networks,
                   nets, conn, supplied, disconnected, tx>>

\* newNetwork._initialize resolves: the Network is cached and returned
GetNetworkFinish(c) ==
    /\ c \in calls
    /\ c.pc = "handler"
    /\ nets' = [nets EXCEPT ![c.net].initialized = TRUE]
    /\ networks' = NetworksSet(networks, c.name, c.net)
    /\ calls' = calls \ {c}
    /\ last' = Outcome("getNetwork", c.name, "ok", <<>>, c.net)
    /\ UNCHANGED <<client, currentIdentity, options, queryHandlerClass,
                   conn, supplied, disconnected, tx>>

(***************************************************************************)
(* disconnect(): _dispose on every cached Network, then the cache is       *)
(* cleared.                                                                *)
(***************************************************************************)
\* a variant that disposes every Network constructed so far
DisposedEvery(cache, instances) ==
    [n \in DOMAIN instances |-> [instances[n] EXCEPT !.disposed = @ + 1]]

\* the Networks after `network._dispose()` on each value of the cache
Disposed(cache, instances) ==
    [n \in DOMAIN instances |->
        IF n \in NetworksValues(cache)
        THEN [instances[n] EXCEPT !.disposed = @ + 1]
        ELSE instances[n]]

\* a variant that also forgets the client and the identity
DisconnectResets ==
    /\ nets' = Disposed(networks, nets)
    /\ networks' = <<>>
    /\ disconnected' = TRUE
    /\ client' = NullClient
    /\ currentIdentity' = NoIdentity
    /\ last' = Outcome("disconnect", None, "ok",
                       [n \in 1..Cardinality(NetworksValues(networks)) |-> Call("_dispose", "")],
                       NoNetwork)
    /\ UNCHANGED <<options, queryHandlerClass, calls, conn, supplied, tx>>

Disconnect ==
    /\ nets' = Disposed(networks, nets)
    /\ networks' = <<>>
    /\ disconnected' = TRUE
    /\ last' = Outcome("disconnect", None, "ok",
                       [n \in 1..Cardinality(NetworksValues(networks)) |-> Call("_dispose", "")],
                       NoNetwork)
    /\ UNCHANGED <<client, currentIdentity, options, queryHandlerClass, calls,
                   conn, supplied, tx>>

(***************************************************************************)
(* The getters: each returns a field of the Gateway as it is.              *)
(***************************************************************************)
getCurrentIdentity ==
    /\ last' = Outcome("getCurrentIdentity", None, "ok", <<>>, currentIdentity)
    /\ UNCHANGED <<client, currentIdentity, options, queryHandlerClass, networks,
                   nets, calls, conn, supplied, disconnected, tx>>

getClient ==
    /\ last' = Outcome("getClient", None, "ok", <<>>, client)
    /\ UNCHANGED <<client, currentIdentity, options, queryHandlerClass, networks,
                   nets, calls, conn, supplied, disconnected, tx>>

getOptions ==
    /\ last' = Outcome("getOptions", None, "ok", <<>>, options)
    /\ UNCHANGED <<client, currentIdentity, options, queryHandlerClass, networks,
                   nets, calls, conn, supplied, disconnected, tx>>

(***************************************************************************)
(* The transaction event handler.  A transaction submitted through a       *)
(* Network is endorsed, then sent to the orderer; unless the strategy of   *)
(* eventHandlerOptions is null, a TxEventHandler is created for it and     *)
(* driven around the submission: startListening before it, waitForEvents   *)
(* after it, cancelListening when it fails.  `tx.log` lists the calls made *)
(* for the transaction and their outcomes, in order.                       *)
(***************************************************************************)
ProposalError == "no valid proposal responses"
ListenError == "unable to listen for commit events"
OrdererError == "failed to send the transaction to the orderer"
CommitError == "commit not confirmed"

\* `eventHandlerOptions.strategy`: null when no event handling is desired
EventHandling == Truthy(options.eventHandlerOptions.props, "strategy")

TxOutcome(outcome) == Outcome("submitTransaction", None, outcome, <<>>, NoNetwork)

\* a variant that sends the transaction to the orderer without awaiting
\* startListening
SubmitTransactionNoAwait ==
    /\ tx.pc = "idle"
    /\ networks # <<>>
    /\ \E accepted \in BOOLEAN :
        IF ~accepted
        THEN /\ tx' = [pc |-> "idle", handler |-> FALSE, log |-> <<"sendTransactionProposal">>]
             /\ last' = TxOutcome(ProposalError)
        ELSE /\ tx' = [pc |-> "sendTransaction", handler |-> EventHandling,
                       log |-> <<"sendTransactionProposal">>
                               \o (IF EventHandling THEN <<"startListening">> ELSE <<>>)
                               \o <<"sendTransaction">>]
             /\ last' = TxOutcome("pending")
    /\ UNCHANGED <<client, currentIdentity, options, queryHandlerClass, networks,
                   nets, calls, conn, supplied, disconnected>>

\* the transaction proposal is sent to the peers; once it has been accepted
\* the handler is created and startListening is called on it
SubmitTransaction ==
    /\ tx.pc = "idle"
    /\ networks # <<>>
    /\ \E accepted \in BOOLEAN :
        IF ~accepted
        THEN /\ tx' = [pc |-> "idle", handler |-> FALSE, log |-> <<"sendTransactionProposal">>]
             /\ last' = TxOutcome(ProposalError)
        ELSE IF EventHandling
        THEN /\ tx' = [pc |-> "startListening", handler |-> TRUE,
                       log |-> <<"sendTransactionProposal", "startListening">>]
             /\ last' = TxOutcome("pending")
        ELSE /\ tx' = [pc |-> "sendTransaction", handler |-> FALSE,
                       log |-> <<"sendTransactionProposal", "sendTransaction">>]
             /\ last' = TxOutcome("pending")
    /\ UNCHANGED <<client, currentIdentity, options, queryHandlerClass, networks,
                   nets, calls, conn, supplied, disconnected>>

\* startListening resolves: the subscriptions are established and the
\* transaction is sent to the orderer
StartListeningResolves ==
    /\ tx.pc = "startListening"
    /\ tx' = [tx EXCEPT !.pc = "sendTransaction",
                        !.log = @ \o <<"listening", "sendTransaction">>]
    /\ last' = TxOutcome("pending")
    /\ UNCHANGED <<client, currentIdentity, options, queryHandlerClass, networks,
                   nets, calls, conn, supplied, disconnected>>

\* startListening rejects: nothing is sent to the orderer
StartListeningRejects ==
    /\ tx.pc = "startListening"
    /\ tx' = [tx EXCEPT !.pc = "idle", !.log = @ \o <<"not listening">>]
    /\ last' = TxOutcome(ListenError)
    /\ UNCHANGED <<client, currentIdentity, options, queryHandlerClass, networks,
                   nets, calls, conn, supplied, disconnected>>

\* the submission to the orderer succeeds: waitForEvents is called
OrdererAccepts ==
    /\ tx.pc = "sendTransaction"
    /\ IF tx.handler
       THEN /\ tx' = [tx EXCEPT !.pc = "waitForEvents",
                                !.log = @ \o <<"sent", "waitForEvents">>]
            /\ last' = TxOutcome("pending")
       ELSE /\ tx' = [tx EXCEPT !.pc = "idle", !.log = @ \o <<"sent">>]
            /\ last' = TxOutcome("ok")
    /\ UNCHANGED <<client, currentIdentity, options, queryHandlerClass, networks,
                   nets, calls, conn, supplied, disconnected>>

\* the submission to the orderer fails: cancelListening is called
OrdererRejects ==
    /\ tx.pc = "sendTransaction"
    /\ tx' = [tx EXCEPT !.pc = "idle",
                        !.log = @ \o <<"not sent">>
                                  \o (IF tx.handler THEN <<"cancelListening">> ELSE <<>>)]
    /\ last' = TxOutcome(OrdererError)
    /\ UNCHANGED <<client, currentIdentity, options, queryHandlerClass, networks,
                   nets, calls, conn, supplied, disconnected>>

\* waitForEvents settles: the commit is confirmed, or it is not
WaitForEventsSettles ==
    /\ tx.pc = "waitForEvents"
    /\ \E committed \in BOOLEAN :
        /\ tx' = [tx EXCEPT !.pc = "idle",
                            !.log = @ \o <<IF committed THEN "committed" ELSE "not committed">>]
        /\ last' = TxOutcome(IF committed THEN "ok" ELSE CommitError)
    /\ UNCHANGED <<client, currentIdentity, options, queryHandlerClass, networks,
                   nets, calls, conn, supplied, disconnected>>

(***************************************************************************)
(* The specifications.  In Spec the callers start operations at any time,  *)
(* so the asynchronous handlers interleave at their await points.  In the  *)
(* other specifications every operation is awaited before the next one is  *)
(* started; they differ in the options the callers connect with.           *)
(***************************************************************************)
\* the calls of the applications: which configs and options they connect
\* with and which channels they ask for
Connect(configs, cases) == \E config \in configs, i \in cases : ConnectStart(config, i)
GetNetwork(names) == \E networkName \in names : GetNetworkStart(networkName)
CreateQueryHandler == \E c \in calls : _createQueryHandler(c)
InitializeFails == \E c \in calls : InitializeRejects(c)
GetNetworkReturns == \E c \in calls : GetNetworkFinish(c)

ProfileConfig == { c \in Configs : ~c.isClient }
OneChannel == {"mychannel"}

\* Spec: one identity on one connection profile, every interleaving of the
\* handlers, two channels
SessionCases == {1, 4}

Next ==
    \/ Connect(ProfileConfig, SessionCases)
    \/ ConnectUserResolved
    \/ ConnectExportResolved
    \/ ConnectWalletRejects
    \/ GetNetwork(ChannelNames)
    \/ CreateQueryHandler
    \/ InitializeFails
    \/ GetNetworkReturns
    \/ Disconnect
    \/ getCurrentIdentity
    \/ getClient
    \/ getOptions

Spec == Init /\ [][Next]_vars

\* no operation is in progress
Quiescent == conn.pc = "idle" /\ calls = {}

\* SeqSpec: the calls of Spec, every operation awaited before the next one
\* starts
SeqNext ==
    \/ Quiescent /\ Connect(ProfileConfig, SessionCases)
    \/ ConnectUserResolved
    \/ ConnectExportResolved
    \/ ConnectWalletRejects
    \/ Quiescent /\ GetNetwork(ChannelNames)
    \/ CreateQueryHandler
    \/ InitializeFails
    \/ GetNetworkReturns
    \/ Quiescent /\ Disconnect

SeqSpec == Init /\ [][SeqNext]_vars

\* IdSpec: every operation is awaited before the next one starts; the
\* callers connect with either config, with and without an identity
IdentityCases == {3, 4, 5}

IdNext ==
    \/ Quiescent /\ Connect(Configs, IdentityCases)
    \/ ConnectUserResolved
    \/ ConnectExportResolved
    \/ ConnectWalletRejects
    \/ Quiescent /\ GetNetwork(OneChannel)
    \/ CreateQueryHandler
    \/ InitializeFails
    \/ GetNetworkReturns
    \/ Quiescent /\ Disconnect

IdSpec == Init /\ [][IdNext]_vars

\* OptionsSpec: every operation is awaited before the next one starts; the
\* callers connect with the options that override the defaults
OverrideCases == {1, 2, 3, 6, 7, 8}

OptionsNext ==
    \/ Quiescent /\ Connect(ProfileConfig, OverrideCases)
    \/ ConnectUserResolved
    \/ ConnectExportResolved
    \/ ConnectWalletRejects
    \/ Quiescent /\ GetNetwork(OneChannel)
    \/ CreateQueryHandler
    \/ InitializeFails
    \/ GetNetworkReturns
    \/ Quiescent /\ Disconnect

OptionsSpec == Init /\ [][OptionsNext]_vars

\* TxSpec: every operation is awaited before the next one starts; the
\* callers connect with and without an event handling strategy and submit
\* transactions through the Networks they obtained
TxCases == {3, 7}
TxIdle == tx.pc = "idle"

TxNext ==
    \/ Quiescent /\ TxIdle /\ Connect(ProfileConfig, TxCases)
    \/ ConnectUserResolved
    \/ ConnectExportResolved
    \/ ConnectWalletRejects
    \/ Quiescent /\ TxIdle /\ GetNetwork(OneChannel)
    \/ CreateQueryHandler
    \/ InitializeFails
    \/ GetNetworkReturns
    \/ Quiescent /\ TxIdle /\ Disconnect
    \/ Quiescent /\ SubmitTransaction
    \/ StartListeningResolves
    \/ StartListeningRejects
    \/ OrdererAccepts
    \/ OrdererRejects
    \/ WaitForEventsSettles

TxSpec == Init /\ [][TxNext]_vars

(***************************************************************************)
(* Properties.                                                             *)
(***************************************************************************)
Cached == { networks[n] : n \in DOMAIN networks }
IsGetNetwork(outcome) == outcome.op = "getNetwork"
IsConnect(outcome) == outcome.op = "connect"
\* the step is the start of a getNetwork(name) call, not the completion of one
Starts(name) == IsGetNetwork(last') /\ last'.arg = name /\ calls \subseteq calls'

\* C1: when every operation is awaited, a getNetwork(name) that has
\* completed leaves its Network in the cache under that name, the entry
\* stays the same until a disconnect, and a later getNetwork(name) returns
\* that entry without constructing or initializing a Network.
C1_GetNetworkIdempotent ==
    [][ /\ (IsGetNetwork(last') /\ last'.outcome = "ok")
            => /\ last'.arg \in DOMAIN networks'
               /\ networks'[last'.arg] = last'.ret
        /\ \A name \in DOMAIN networks :
            /\ last'.op # "disconnect"
                => name \in DOMAIN networks' /\ networks'[name] = networks[name]
            /\ Starts(name)
                => /\ last'.outcome = "ok"
                   /\ last'.ret = networks[name]
                   /\ last'.ext = <<>>
                   /\ UNCHANGED <<nets, calls>>
      ]_vars

\* a second getNetwork for a cached name has returned the cached instance
C1_Witness ==
    /\ IsGetNetwork(last) /\ last.outcome = "ok" /\ last.ext = <<>>
    /\ calls = {}
    /\ Len(nets) = 1
    /\ nets[1].initialized
    /\ last.ret = 1

\* C2: concurrent getNetwork calls for one channel name share a single
\* Network instance: no two of them are in progress with a Network of their
\* own.
C2_AtomicInsertIfAbsent ==
    \A c1, c2 \in calls : c1.name = c2.name => c1.net = c2.net

\* C3: disconnect calls _dispose exactly once on each cached Network and on
\* no other, and empties the cache; no Network is ever disposed twice; a
\* getNetwork that finds the cache empty constructs a fresh Network.
C3_DisconnectDisposesAndClears ==
    [][ /\ last'.op = "disconnect"
            => /\ networks' = <<>>
               /\ Len(last'.ext) = Cardinality(Cached)
               /\ \A n \in DOMAIN nets :
                    nets'[n] = [nets[n] EXCEPT !.disposed =
                                    IF n \in Cached THEN @ + 1 ELSE @]
        /\ \A n \in DOMAIN nets' : nets'[n].disposed <= 1
        /\ \A name \in ChannelNames :
            (Starts(name) /\ networks = <<>> /\ client # NullClient)
            => /\ last'.outcome = "pending"
               /\ Len(nets') = Len(nets) + 1
               /\ nets'[Len(nets')].disposed = 0
               /\ ~nets'[Len(nets')].initialized
      ]_vars

\* after a disconnect that disposed a Network, getNetwork for its name has
\* built and cached another instance
C3_Witness ==
    \E n, m \in DOMAIN nets :
        /\ n < m
        /\ nets[n].name = nets[m].name
        /\ nets[n].disposed = 1
        /\ nets[m].initialized /\ nets[m].disposed = 0
        /\ nets[m].name \in DOMAIN networks
        /\ networks[nets[m].name] = m

\* C4: once disconnect has run and the getNetwork calls started before it
\* have completed, the cache is empty and every initialized Network has been
\* disposed.
C4_DisconnectReleasesAll ==
    (disconnected /\ calls = {})
        => /\ networks = <<>>
           /\ \A n \in DOMAIN nets : nets[n].initialized => nets[n].disposed >= 1

\* the option cases without options or without a wallet
NoWallet(i) == ~OptionCases[i].obj \/ "wallet" \notin DOMAIN OptionCases[i].props
\* the identity label an option case names, if any
NamesIdentity(i) == OptionCases[i].obj /\ "identity" \in DOMAIN OptionCases[i].props

\* C5: a connect without options or without a wallet fails with the wallet
\* error, calls no collaborator and leaves the client, the identity, the
\* options, the query handler class and the Networks as they were.
C5_NoWalletNoEffect ==
    [][ (IsConnect(last') /\ NoWallet(last'.arg.options))
            => /\ last'.outcome = WalletError
               /\ last'.ext = <<>>
               /\ UNCHANGED <<client, currentIdentity, options, queryHandlerClass,
                              networks, nets, calls, conn, supplied>>
      ]_vars

\* a connected Gateway with a cached Network and overridden options has
\* rejected a connect whose options carry no wallet
C5_Witness ==
    /\ IsConnect(last) /\ last.outcome = WalletError
    /\ last.arg.options = 2
    /\ client # NullClient
    /\ currentIdentity # NoIdentity
    /\ options # DefaultOptions
    /\ networks # <<>>

\* C6: a Gateway on which connect has completed successfully has a current
\* identity.
C6_IdentityRequired ==
    (IsConnect(last) /\ last.outcome = "ok") => currentIdentity # NoIdentity

\* C7: a connect that completes sets the client of its config, and the
\* identity its options name; a Network that getNetwork builds and returns
\* afterwards has the channel of that client and a query handler for the
\* MSP ID of the current identity; the channel and MSP ID of the Networks
\* built before never change.
C7_ReassignmentNotRetroactive ==
    [][ /\ (IsConnect(last') /\ last'.outcome = "ok")
            => /\ client' = last'.arg.config
               /\ NamesIdentity(last'.arg.options)
                    => currentIdentity' =
                         UserOf(OptionCases[last'.arg.options].props["identity"].val)
        /\ (IsGetNetwork(last') /\ last'.outcome = "ok" /\ calls' # calls)
            => /\ nets'[last'.ret].client = client'
               /\ nets'[last'.ret].mspId =
                    IF queryHandlerClass' = NoClass THEN "none"
                    ELSE MSPIdOf(currentIdentity')
        /\ \A n \in DOMAIN nets :
            /\ nets'[n].name = nets[n].name
            /\ nets'[n].client = nets[n].client
            /\ nets[n].mspId # "none" => nets'[n].mspId = nets[n].mspId
      ]_vars

\* a Network built under the first client and identity, and one built after
\* a connect with another client and identity, each with its own
C7_Witness ==
    /\ Len(nets) = 2
    /\ nets[1].initialized /\ nets[2].initialized
    /\ nets[1].client = "profileClient" /\ nets[1].mspId = "Org1MSP"
    /\ nets[2].client = "prebuiltClient" /\ nets[2].mspId = "Org2MSP"
    /\ client = "prebuiltClient" /\ currentIdentity = "user2"

\* C8: the cache maps different channel names to different Network
\* instances, each constructed for its name, and a getNetwork step for one
\* name leaves the entries and the Networks of the other names as they were.
C8_CacheInjective ==
    [][ /\ \A a, b \in DOMAIN networks' :
            /\ nets'[networks'[a]].name = a
            /\ a # b => networks'[a] # networks'[b]
        /\ \A b \in DOMAIN networks :
            (last'.op # "disconnect" /\ ~(IsGetNetwork(last') /\ last'.arg = b))
            => /\ b \in DOMAIN networks'
               /\ networks'[b] = networks[b]
               /\ nets'[networks[b]] = nets[networks[b]]
      ]_vars

\* both channels are cached, each with its own Network
C8_Witness ==
    /\ DOMAIN networks = ChannelNames
    /\ \A a, b \in DOMAIN networks : a # b => networks[a] # networks[b]

\* the value of this.options[group][prop], Undefined if there is none
OptionValue(group, prop) ==
    IF Defined(options, group) /\ options[group].obj
       /\ Defined(options[group].props, prop)
    THEN options[group].props[prop]
    ELSE Undefined

\* C9: eventHandlerOptions.commitTimeout is 300 unless a connect supplied a
\* commitTimeout, and eventHandlerOptions.strategy is MSPID_SCOPE_ALLFORTX
\* unless a connect supplied a strategy (null included); then they are the
\* values supplied last.
C9_EventHandlerDefaults ==
    /\ OptionValue("eventHandlerOptions", "commitTimeout") =
         IF supplied.commitTimeout.type = "undefined"
         THEN Num(DefaultCommitTimeout) ELSE supplied.commitTimeout
    /\ OptionValue("eventHandlerOptions", "strategy") =
         IF supplied.strategy.type = "undefined"
         THEN MSPID_SCOPE_ALLFORTX ELSE supplied.strategy

\* a connect has overridden the commitTimeout alone: the strategy is the default
C9_Witness ==
    /\ IsConnect(last) /\ last.outcome = "ok"
    /\ supplied.commitTimeout = Num(100)
    /\ supplied.strategy.type = "undefined"
    /\ OptionValue("eventHandlerOptions", "strategy") = MSPID_SCOPE_ALLFORTX

\* C10: as long as no connect supplied discovery.enabled, the discovery
\* options that getNetwork passes to _initialize have enabled at its default.
C10_DiscoveryEnabledDefault ==
    (IsGetNetwork(last) /\ last.outcome = "pending"
        /\ supplied.enabled.type = "undefined")
    => LET discovery == last.ext[2].arg IN
        /\ discovery.obj
        /\ Defined(discovery.props, "enabled")
        /\ discovery.props["enabled"] = InitializeWithDiscovery

\* the position of the first `entry` in the log of the transaction, 0 when absent
LogIndex(entry) ==
    IF \E i \in DOMAIN tx.log : tx.log[i] = entry
    THEN CHOOSE i \in DOMAIN tx.log :
            tx.log[i] = entry /\ \A j \in DOMAIN tx.log : tx.log[j] = entry => i <= j
    ELSE 0
Logged(entry) == LogIndex(entry) > 0
Times(entry) == Cardinality({ i \in DOMAIN tx.log : tx.log[i] = entry })

\* C11: for every submitted transaction that has an event handler,
\* startListening is called and has resolved before the transaction is sent
\* to the orderer; waitForEvents is called only after the submission to the
\* orderer succeeded; cancelListening is called only after the submission
\* failed, and never together with waitForEvents; each is called at most
\* once, and no handler call is made when no handler was created
C11_EventHandlerOrder ==
    /\ Times("startListening") <= 1 /\ Times("waitForEvents") <= 1
    /\ Times("cancelListening") <= 1 /\ Times("sendTransaction") <= 1
    /\ (Logged("sendTransaction") /\ tx.handler) =>
            /\ Logged("startListening") /\ Logged("listening")
            /\ LogIndex("startListening") < LogIndex("listening")
            /\ LogIndex("listening") < LogIndex("sendTransaction")
    /\ Logged("waitForEvents") =>
            /\ Logged("sent")
            /\ LogIndex("sendTransaction") < LogIndex("sent")
            /\ LogIndex("sent") < LogIndex("waitForEvents")
    /\ Logged("cancelListening") =>
            /\ Logged("not sent")
            /\ LogIndex("sendTransaction") < LogIndex("not sent")
            /\ LogIndex("not sent") < LogIndex("cancelListening")
            /\ ~Logged("waitForEvents")
    /\ (Logged("not sent") /\ tx.handler) => Logged("cancelListening")
    /\ (Logged("sent") /\ tx.handler) => Logged("waitForEvents")
    /\ ~tx.handler => /\ ~Logged("startListening") /\ ~Logged("waitForEvents")
                      /\ ~Logged("cancelListening")

\* a transaction was sent to the orderer, which refused it, and its handler
\* was cancelled
C11_Witness ==
    /\ tx.handler /\ tx.pc = "idle"
    /\ tx.log = <<"sendTransactionProposal", "startListening", "listening",
                  "sendTransaction", "not sent", "cancelListening">>

\* the getNetwork call that the step completes, when it completes one
Completed == calls \ calls'
\* the step is the rejection of an awaiting getNetwork call
Rejects == IsGetNetwork(last') /\ Completed # {} /\ last'.outcome # "ok"

\* C12: in every state each Network in the cache, and the Network the last
\* getNetwork returned, has completed _initialize, and a Network that has
\* not is neither cached nor returned; when _initialize fails, getNetwork
\* rejects with the error and returns no Network, the failing call leaves
\* the cache as it was (without an entry for the name when it had none) and
\* its Network never enters the cache; a later getNetwork(name) that finds
\* no entry constructs a new Network and initializes it
C12_VisibleOnlyInitialized ==
    /\ [](/\ \A n \in Cached : n \in DOMAIN nets /\ nets[n].initialized
          /\ (IsGetNetwork(last) /\ last.outcome = "ok") =>
                last.ret \in DOMAIN nets /\ nets[last.ret].initialized
          /\ IsGetNetwork(last) /\ last.outcome # "ok" => last.ret = NoNetwork
          /\ \A c \in calls : ~nets[c.net].initialized /\ c.net \notin Cached)
    /\ [][/\ Rejects =>
                \A c \in Completed :
                    /\ last'.outcome \in {InitializeError, TypeError}
                    /\ last'.arg = c.name
                    /\ last'.ret = NoNetwork
                    /\ networks' = networks
                    /\ c.name \notin DOMAIN networks => c.name \notin DOMAIN networks'
                    /\ c.net \notin Cached' /\ ~nets'[c.net].initialized
          /\ \A name \in ChannelNames :
                (Starts(name) /\ name \notin DOMAIN networks /\ client # NullClient) =>
                    /\ Len(nets') = Len(nets) + 1
                    /\ nets'[Len(nets')] = NewNetwork(name, client)
                    /\ \E c \in calls' \ calls : c.net = Len(nets') /\ c.name = name
                    /\ last'.ext = <<Call("new Network", name),
                                     Call("_initialize", InitializeArgument(options))>>
          /\ \A n \in DOMAIN nets :
                (~nets[n].initialized /\ \A c \in calls : c.net # n) =>
                    ~nets'[n].initialized /\ n \notin Cached']_vars

\* the _initialize of the first Network of a channel failed and it is not
\* cached; a later getNetwork of the same channel built a second Network,
\* which is initialized, cached and returned
C12_Witness ==
    /\ Len(nets) = 2 /\ calls = {}
    /\ nets[1].name = nets[2].name
    /\ ~nets[1].initialized /\ nets[1].disposed = 0
    /\ nets[2].initialized
    /\ networks = [n \in {nets[2].name} |-> 2]
    /\ IsGetNetwork(last) /\ last.outcome = "ok" /\ last.ret = 2

\* the positions of the setTlsClientCertAndKey calls among the calls of a step
TlsSets(ext) == { i \in DOMAIN ext : ext[i].call = "setTlsClientCertAndKey" }
\* the calls of a step that choose the client or set the user identity on it
Prepares(ext) == { i \in DOMAIN ext : ext[i].call \in {"loadFromConfig", "setUserContext"} }

MergedKeyByKey(result, into, from) ==
    /\ DOMAIN result = (DOMAIN into) \cup (DOMAIN from)
    /\ \A k \in (DOMAIN into) \ (DOMAIN from) : result[k] = into[k]
    /\ \A k \in DOMAIN from :
        IF k \in DOMAIN into /\ from[k].obj /\ EndsWithOptions(k)
        THEN /\ result[k].obj
             /\ DOMAIN result[k].props = (DOMAIN into[k].props) \cup (DOMAIN from[k].props)
             /\ \A j \in DOMAIN from[k].props : result[k].props[j] = from[k].props[j]
             /\ \A j \in (DOMAIN into[k].props) \ (DOMAIN from[k].props) :
                    result[k].props[j] = into[k].props[j]
        ELSE result[k] = from[k]

\* C14: when a connect with a wallet supplies a query handler that differs
\* from the configured one, the options name the supplied handler afterwards
\* and their queryHandlerOptions are exactly the supplied ones, absent when
\* none were supplied; when it supplies none or the configured one, the
\* handler stays and supplied queryHandlerOptions are merged key by key
\* into the existing ones, which are left as they were when none are supplied
C14_QueryHandlerSelection ==
    [][(IsConnect(last') /\ conn.pc = "idle" /\ ~NoWallet(last'.arg.options)) =>
        LET opts == OptionCases[last'.arg.options].props
            differs == /\ Truthy(opts, "queryHandler")
                       /\ opts.queryHandler # options.queryHandler
            had == Defined(options, "queryHandlerOptions")
            has == Defined(options', "queryHandlerOptions")
        IN  IF differs
            THEN /\ options'.queryHandler = opts.queryHandler
                 /\ IF Defined(opts, "queryHandlerOptions")
                    THEN has /\ options'.queryHandlerOptions = opts.queryHandlerOptions
                    ELSE ~has
            ELSE /\ options'.queryHandler = options.queryHandler
                 /\ IF ~Defined(opts, "queryHandlerOptions")
                    THEN /\ has <=> had
                         /\ had => options'.queryHandlerOptions = options.queryHandlerOptions
                    ELSE /\ has
                         /\ IF had
                            THEN MergedKeyByKey(options'.queryHandlerOptions.props,
                                                options.queryHandlerOptions.props,
                                                opts.queryHandlerOptions.props)
                            ELSE options'.queryHandlerOptions = opts.queryHandlerOptions]_vars

\* a connect supplied queryHandlerOptions for the default handler, a later
\* one another handler with its own options: only the latter are in effect
C14_Witness ==
    /\ IsConnect(last) /\ last.arg.options = 7 /\ last.outcome = "ok"
    /\ supplied.commitTimeout = Num(100)
    /\ options.queryHandler = CustomQueryHandler
    /\ options.queryHandlerOptions = Obj([strategy |-> Str("ROUND_ROBIN")])

Session == <<client, currentIdentity, options, queryHandlerClass>>
IsGetter(outcome) == outcome.op \in {"getCurrentIdentity", "getClient", "getOptions"}

\* C15: in every interleaving, a step of getNetwork, of _createQueryHandler,
\* of disconnect or of a getter leaves the client, the current identity, the
\* options and the query handler class as they were; disconnect changes
\* only the cache and the disposal of the Networks that were in it; a getter
\* changes nothing and returns the field as it is
C15_OnlyConnectChangesSession ==
    [][/\ ~IsConnect(last') => UNCHANGED Session
       /\ last'.op = "disconnect" =>
            /\ UNCHANGED <<Session, calls, conn, supplied>>
            /\ DOMAIN nets' = DOMAIN nets
            /\ \A n \in DOMAIN nets : [nets'[n] EXCEPT !.disposed = 0]
                                        = [nets[n] EXCEPT !.disposed = 0]
       /\ IsGetter(last') =>
            /\ UNCHANGED <<Session, networks, nets, calls, conn, supplied>>
            /\ last'.op = "getCurrentIdentity" => last'.ret = currentIdentity
            /\ last'.op = "getClient" => last'.ret = client
            /\ last'.op = "getOptions" => last'.ret = options]_vars

\* a connect set an identity and loaded the query handler, a Network was
\* built for it and a disconnect has disposed it: the client, the identity
\* and the query handler class are still those of the connect
C15_Witness ==
    /\ last.op = "disconnect"
    /\ \E n \in DOMAIN nets : nets[n].disposed = 1 /\ nets[n].mspId = MSPIdOf(currentIdentity)
    /\ client = "profileClient" /\ currentIdentity = UserOf("user2")
    /\ queryHandlerClass = ClassOf(DefaultQueryHandler)
    /\ networks = <<>>

====
